---- MODULE Spec2Model ----
(***************************************************************************)
(* Model of the API Service Bridge example plugin: the request wrapper     *)
(* (ApiServiceWrapper), its error classifier, the domain operations        *)
(* (DemoApiService) built on it, the external reachability checker         *)
(* (ExternalApiService) and the component (ApiExample) that drives them.   *)
(*                                                                         *)
(* Conventions.  An optional JavaScript value is a sequence of length 0    *)
(* (undefined / null / absent) or 1 (present).  A string is a sequence of  *)
(* text tokens, so '' is << >>; String.includes is a search for a token.   *)
(* A raw error's message, when present, is a string.  A transport handed   *)
(* to setServiceBridge is null or an object with get/post/put/delete.      *)
(* The wrapper's durations are differences of two readings of the clock    *)
(* now; the domain service's timing fields are not part of this model.     *)
(* The checker's and the component's timers count the time elapsed or      *)
(* left, in milliseconds.  In the component's specification the requests   *)
(* of different handlers do not overlap; overlapping wrapper requests      *)
(* are the subject of SpecConcurrent.                                      *)
(***************************************************************************)
EXTENDS Integers, Sequences, FiniteSets, TLC

VARIABLES
    apiService, isConnected, requestCount,   \* ApiServiceWrapper fields
    call,                                    \* the wrapper / domain call under observation
    checkCount,                              \* ExternalApiService field
    check,                                   \* the checkCommunityStatus call under observation
    multi,                                   \* the performMultipleChecks call under observation
    parked,                                  \* wrapper requests awaiting their transport, set aside
    batch,                                   \* the requests issued since the caller's last mark
    now,                                     \* the clock that Date.now() reads
    ui,                                      \* the ApiExample component
    host                                     \* props.services.api, as the host provides it

wrapperVars == <<apiService, isConnected, requestCount, call>>
checkerVars == <<checkCount, check, multi>>
concurrencyVars == <<parked, batch>>

uiVars == <<now, ui, host>>
vars == <<apiService, isConnected, requestCount, call, checkCount, check, multi, parked, batch,
         now, ui, host>>

----------------------------------------------------------------------------
(* Bounds *)

MaxRequests == 3
MaxMsgLen == 1
MaxNameLen == 2

----------------------------------------------------------------------------
(* Values *)

None == << >>
Some(x) == <<x>>

Null == "null"
Transports == {"T1", "T2"}

Verbs == {"GET", "POST", "PUT", "DELETE"}

SeqsUpTo(S, n) == UNION {[1..k -> S] : k \in 0..n}

\* texts an error's message can hold; "timeout" stands for the substring
\* 'timeout', "x" for any text without it
MsgTokens == {"timeout", "x"}
Messages == SeqsUpTo(MsgTokens, MaxMsgLen)
OptMessages == {None} \cup {Some(m) : m \in Messages}

\* error.response.data: absent, or an object with optional detail / message
ResponseDatas ==
    {None} \cup
    {Some([detail |-> d, message |-> m]) :
        d \in {None, Some(<< >>), Some(<<"server detail">>)},
        m \in {None, Some(<<"server message">>)}}

Statuses == {400, 401, 403, 404, 418, 422, 500, 503}

HttpResponses == {[status |-> s, data |-> d] : s \in Statuses, d \in ResponseDatas}

\* what a transport can throw or reject with
RawErrors ==
    {[isObject |-> TRUE, response |-> r, code |-> c, message |-> m] :
        r \in {None} \cup {Some(h) : h \in HttpResponses},
        c \in {"none", "ERR_NETWORK"},
        m \in OptMessages}
    \cup {[isObject |-> FALSE, response |-> None, code |-> "none", message |-> None]}

\* what a transport can resolve with: undefined/null, or a body with or
\* without a data field
Responses ==
    {[nullish |-> TRUE, data |-> None],
     [nullish |-> FALSE, data |-> None],
     [nullish |-> FALSE, data |-> Some("payload")]}

Truthy(opt) == opt # None /\ opt[1] # << >>

Includes(text, token) == \E i \in 1..Len(text) : text[i] = token

----------------------------------------------------------------------------
(* ApiServiceWrapper: pure parts *)

\* the null check left out
IsServiceConnectedFlagOnly == isConnected

IsServiceConnected == isConnected /\ apiService # Null

GetStats == [requestCount |-> requestCount, isConnected |-> isConnected]

\* the default text left out
CreateApiErrorNoFallback(error, status, code, details) ==
    [message |-> IF error.message # None THEN error.message[1] ELSE << >>,
     status  |-> status,
     code    |-> code,
     details |-> details]

CreateApiError(error, status, code, details) ==
    [message |-> IF Truthy(error.message) THEN error.message[1]
                 ELSE <<"An unknown error occurred">>,
     status  |-> status,
     code    |-> code,
     details |-> details]

ServerMessage(responseData) ==
    IF responseData = None THEN None
    ELSE IF Truthy(responseData[1].detail) THEN responseData[1].detail
         ELSE responseData[1].message

GetErrorMessage(status, responseData) ==
    LET serverMessage == ServerMessage(responseData)
        orElse(text) == IF Truthy(serverMessage) THEN serverMessage[1] ELSE text
    IN  CASE status = 400 -> orElse(<<"Bad request - please check your input">>)
          [] status = 401 -> <<"Authentication required - please log in">>
          [] status = 403 -> <<"Access denied - you don't have permission for this action">>
          [] status = 404 -> orElse(<<"Resource not found">>)
          [] status = 422 -> orElse(<<"Validation error - please check your input">>)
          [] status = 500 -> <<"Server error - please try again later">>
          [] status = 503 -> <<"Service unavailable - please try again later">>
          [] OTHER -> orElse(<<"HTTP ", ToString(status), " error occurred">>)

\* the case for 503 left out
GetErrorCodeNo503(status) ==
    CASE status = 400 -> "BAD_REQUEST"
      [] status = 401 -> "UNAUTHORIZED"
      [] status = 403 -> "FORBIDDEN"
      [] status = 404 -> "NOT_FOUND"
      [] status = 422 -> "VALIDATION_ERROR"
      [] status = 500 -> "INTERNAL_SERVER_ERROR"
      [] OTHER -> "HTTP_ERROR"

GetErrorCode(status) ==
    CASE status = 400 -> "BAD_REQUEST"
      [] status = 401 -> "UNAUTHORIZED"
      [] status = 403 -> "FORBIDDEN"
      [] status = 404 -> "NOT_FOUND"
      [] status = 422 -> "VALIDATION_ERROR"
      [] status = 500 -> "INTERNAL_SERVER_ERROR"
      [] status = 503 -> "SERVICE_UNAVAILABLE"
      [] OTHER -> "HTTP_ERROR"

\* the timeout test made before the network test
HandleApiErrorTimeoutFirst(error) ==
    IF error.response # None THEN
        CreateApiError(error, error.response[1].status,
                       GetErrorCode(error.response[1].status),
                       Some([responseData |-> error.response[1].data]))
    ELSE IF error.message # None /\ Includes(error.message[1], "timeout") THEN
        CreateApiError(error, 408, "TIMEOUT", Some([responseData |-> None]))
    ELSE IF error.code = "ERR_NETWORK" THEN
        CreateApiError(error, 0, "NETWORK_ERROR", Some([responseData |-> None]))
    ELSE
        CreateApiError(error, 500, "UNKNOWN_ERROR", Some([responseData |-> None]))

HandleApiError(error) ==
    IF error.response # None THEN
        LET status  == error.response[1].status
            message == GetErrorMessage(status, error.response[1].data)
        IN  \* message is computed and not used by the source
            CreateApiError(error, status, GetErrorCode(status),
                           Some([responseData |-> error.response[1].data]))
    ELSE IF error.code = "ERR_NETWORK" THEN
        CreateApiError(error, 0, "NETWORK_ERROR", Some([responseData |-> None]))
    ELSE IF error.message # None /\ Includes(error.message[1], "timeout") THEN
        CreateApiError(error, 408, "TIMEOUT", Some([responseData |-> None]))
    ELSE
        CreateApiError(error, 500, "UNKNOWN_ERROR", Some([responseData |-> None]))

----------------------------------------------------------------------------
(* The call under observation: the most recent call made on the wrapper or *)
(* on the domain service, from its start to its settlement.                *)

NoCall ==
    [pc             |-> "none",      \* "none", "awaiting" or "settled"
     layer          |-> "none",      \* "connect", "wrapper" or "domain"
     op             |-> "none",
     verb           |-> "none",
     hadTransport   |-> FALSE,       \* a transport was installed at the start
     countBefore    |-> 0,           \* requestCount at the start
     countIssued    |-> 0,           \* requestCount when makeRequest suspended or threw
     startTime      |-> 0,           \* makeRequest: Date.now() before the transport call
     endTime        |-> 0,           \* makeRequest: Date.now() after the transport call
     resolved       |-> None,        \* what the transport's promise resolved with
     input          |-> None,        \* the arguments of a domain operation
     requests       |-> << >>,       \* wrapper requests this call made (verb, path)
     transportCalls |-> << >>,       \* transport methods this call invoked
     outcome        |-> "none",      \* makeRequest: "returned" or "threw"
     apiError       |-> None,        \* what makeRequest threw
     response       |-> None,        \* what makeRequest returned
     envelope       |-> None,        \* what the domain operation returned
     validation     |-> None,        \* what validateItemData returned
     escaped        |-> FALSE,       \* an exception left the called method
     bridge         |-> None,        \* setServiceBridge: its argument and the state before
     raw            |-> None]        \* the error handed to handleApiError alone

NewCall(layer, op, verb) ==
    [NoCall EXCEPT !.layer = layer, !.op = op, !.verb = verb,
                   !.hadTransport = (apiService # Null),
                   !.countBefore = requestCount,
                   !.countIssued = requestCount]

----------------------------------------------------------------------------
(* DemoApiService: pure parts *)

BaseUrl == "/api/v1/demo"

Success(data) == [success |-> TRUE, data |-> data, error |-> None]
Failure(text) == [success |-> FALSE, data |-> None, error |-> Some(text)]

\* the fallback text left out
ErrorTextNoFallback(error, fallback) == IF error.isError THEN error.message ELSE << >>

\* error instanceof Error ? error.message : fallback
ErrorText(error, fallback) == IF error.isError THEN error.message ELSE fallback

Fallback(op) ==
    CASE op = "getItems"    -> <<"Failed to fetch items">>
      [] op = "createItem"  -> <<"Failed to create item">>
      [] op = "updateItem"  -> <<"Failed to update item">>
      [] op = "deleteItem"  -> <<"Failed to delete item">>
      [] op = "getStatus"   -> <<"Failed to get status">>
      [] op = "healthCheck" -> <<"Health check failed">>

\* reading a property of undefined inside the try block
TypeError == [isError |-> TRUE, message |-> <<"Cannot read properties of undefined">>]

\* the rest of a domain operation's try block once the wrapper has returned
OnResponse(op, response) ==
    CASE op \in {"getItems", "createItem", "updateItem"} ->
            IF response.data.nullish
            THEN Failure(ErrorText(TypeError, Fallback(op)))
            ELSE Success(response.data.data)
      [] op = "deleteItem" -> Success(None)
      [] op \in {"getStatus", "healthCheck"} -> Success(Some(response.data))

\* the catch block of a domain operation
OnError(op, error) == Failure(ErrorText(error, Fallback(op)))

\* item names: absent, or text over a blank and a letter
NameChars == {" ", "a"}
Names == {None} \cup {Some(n) : n \in SeqsUpTo(NameChars, MaxNameLen)}
Ids == {"", "item-1"}

\* UpdateItemRequest: every field optional
UpdateRequests == {[name |-> None], [name |-> Some(<<"a">>)]}

RECURSIVE TrimStart(_)
TrimStart(s) == IF s # << >> /\ Head(s) = " " THEN TrimStart(Tail(s)) ELSE s

RECURSIVE TrimEnd(_)
TrimEnd(s) ==
    IF s # << >> /\ s[Len(s)] = " " THEN TrimEnd(SubSeq(s, 1, Len(s) - 1)) ELSE s

\* the name not trimmed before the test
TrimNothing(s) == s

Trim(s) == TrimEnd(TrimStart(s))

\* itemData.name?.trim()
TrimmedName(name) == IF name = None THEN None ELSE Some(Trim(name[1]))

----------------------------------------------------------------------------
(* ApiServiceWrapper: operations *)

\* the connected flag not set
SetServiceBridgeNoFlag(service) ==
    /\ apiService' = service
    /\ UNCHANGED <<isConnected, requestCount>>
    /\ call' = IF call.pc = "awaiting" THEN call
               ELSE [NoCall EXCEPT !.pc = "settled", !.layer = "connect",
                                   !.op = "setServiceBridge",
                                   !.bridge = Some([service         |-> service,
                                                    installedBefore |-> apiService,
                                                    connectedBefore |-> isConnected /\ apiService # Null,
                                                    statsBefore     |-> [requestCount |-> requestCount,
                                                                         isConnected  |-> isConnected]])]

\* a call of setServiceBridge made while no request is awaited is the call
\* under observation; one made during a request leaves the observation alone
SetServiceBridge(service) ==
    /\ apiService' = service
    /\ isConnected' = TRUE
    /\ UNCHANGED requestCount
    /\ call' = IF call.pc = "awaiting" THEN call
               ELSE [NewCall("connect", "setServiceBridge", "none") EXCEPT
                        !.pc = "settled",
                        !.bridge = Some([service         |-> service,
                                         installedBefore |-> apiService,
                                         connectedBefore |-> IsServiceConnected,
                                         statsBefore     |-> GetStats])]

\* PUT sent through the transport's post
DispatchPutAsPost(method) ==
    CASE method = "GET"    -> "get"
      [] method = "POST"   -> "post"
      [] method = "PUT"    -> "post"
      [] method = "DELETE" -> "delete"
      [] OTHER -> "unsupported"

Dispatch(method) ==
    CASE method = "GET"    -> "get"
      [] method = "POST"   -> "post"
      [] method = "PUT"    -> "put"
      [] method = "DELETE" -> "delete"
      [] OTHER -> "unsupported"

\* makeRequest threw e: seen by the caller of the wrapper, or caught by the
\* domain operation that called it
Threw(c, e) ==
    IF c.layer = "wrapper"
    THEN [c EXCEPT !.pc = "settled", !.outcome = "threw",
                   !.apiError = Some(e), !.escaped = TRUE]
    ELSE [c EXCEPT !.pc = "settled", !.outcome = "threw", !.apiError = Some(e),
                   !.envelope = Some(OnError(c.op, [isError |-> FALSE,
                                                    message |-> e.message]))]

\* makeRequest returned r
Returned(c, r) ==
    IF c.layer = "wrapper"
    THEN [c EXCEPT !.pc = "settled", !.outcome = "returned", !.response = Some(r)]
    ELSE [c EXCEPT !.pc = "settled", !.outcome = "returned", !.response = Some(r),
                   !.envelope = Some(OnResponse(c.op, r))]

NotConnectedError ==
    CreateApiError([message |-> Some(<<"API Service not connected">>)],
                   503, "SERVICE_NOT_CONNECTED", None)

\* as MakeRequest, taking the request number before the transport call and
\* leaving the increment for after it
MakeRequestCountsLate(c, method, path, data) ==
    IF ~IsServiceConnected THEN
        /\ call' = Threw([c EXCEPT !.requests =
                              Append(@, [method |-> method, path |-> path])],
                         NotConnectedError)
        /\ UNCHANGED <<apiService, isConnected, requestCount>>
    ELSE
        /\ requestCount < MaxRequests
        /\ UNCHANGED <<apiService, isConnected, requestCount>>
        /\ call' = [c EXCEPT !.pc = "awaiting",
                             !.countIssued = requestCount + 1,
                             !.requests =
                                 Append(@, [method |-> method, path |-> path]),
                             !.transportCalls =
                                 Append(@, [method |-> Dispatch(method),
                                            path |-> path, data |-> data])]

\* makeRequest up to the point where it awaits the transport
MakeRequest(c, method, path, data) ==
    IF ~IsServiceConnected THEN
        /\ call' = Threw([c EXCEPT !.requests =
                              Append(@, [method |-> method, path |-> path])],
                         NotConnectedError)
        /\ UNCHANGED <<apiService, isConnected, requestCount>>
    ELSE
        /\ requestCount < MaxRequests
        /\ requestCount' = requestCount + 1
        /\ UNCHANGED <<apiService, isConnected>>
        /\ LET d == [c EXCEPT !.countIssued = requestCount + 1,
                              !.startTime = now,
                              !.requests =
                                  Append(@, [method |-> method, path |-> path])] IN
           IF apiService = Null THEN
               \* null.get(...) throws inside the try block
               call' = Threw(d, HandleApiError(
                   [isObject |-> TRUE, response |-> None, code |-> "none",
                    message |-> Some(<<"Cannot read properties of null">>)]))
           ELSE IF Dispatch(method) = "unsupported" THEN
               call' = Threw(d, HandleApiError(
                   [isObject |-> TRUE, response |-> None, code |-> "none",
                    message |-> Some(<<"Unsupported HTTP method: ", method>>)]))
           ELSE
               call' = [d EXCEPT !.pc = "awaiting",
                                 !.transportCalls =
                                     Append(@, [method |-> Dispatch(method),
                                                path |-> path, data |-> data])]

Paths == {<<"/some/path">>}
Payloads == {None, Some([name |-> Some(<<"a">>)])}

Get(path) ==
    /\ call.pc # "awaiting"
    /\ MakeRequest(NewCall("wrapper", "get", "GET"), "GET", path, None)

Post(path, data) ==
    /\ call.pc # "awaiting"
    /\ MakeRequest(NewCall("wrapper", "post", "POST"), "POST", path, data)

Put(path, data) ==
    /\ call.pc # "awaiting"
    /\ MakeRequest(NewCall("wrapper", "put", "PUT"), "PUT", path, data)

Delete(path) ==
    /\ call.pc # "awaiting"
    /\ MakeRequest(NewCall("wrapper", "delete", "DELETE"), "DELETE", path, None)

\* as ApiResponseOf, with the end time in place of the elapsed time
ApiResponseOfEndTime(c, response) ==
    [data |-> response, status |-> 200, responseTime |-> now, timestamp |-> now]

\* the ApiResponse makeRequest builds from what the transport resolved with
ApiResponseOf(c, response) ==
    [data |-> response, status |-> 200, responseTime |-> now - c.startTime,
     timestamp |-> now]

\* the transport's promise resolves: the rest of makeRequest's try block
TransportResolves(response) ==
    /\ call.pc = "awaiting"
    /\ call' = Returned([call EXCEPT !.endTime = now, !.resolved = Some(response)],
                        ApiResponseOf(call, response))
    /\ UNCHANGED <<apiService, isConnected, requestCount>>

\* the transport throws or its promise rejects: makeRequest's catch block
TransportRejects(error) ==
    /\ call.pc = "awaiting"
    /\ call' = Threw(call, HandleApiError(error))
    /\ UNCHANGED <<apiService, isConnected, requestCount>>

----------------------------------------------------------------------------
(* DemoApiService: operations *)

\* the start of a domain operation called with the given arguments
DomainCall(op, verb, input) ==
    [NewCall("domain", op, verb) EXCEPT !.input = input]

GetItems ==
    /\ call.pc # "awaiting"
    /\ MakeRequest(NewCall("domain", "getItems", "GET"), "GET",
                   <<BaseUrl, "/items">>, None)

CreateItem(name) ==
    /\ call.pc # "awaiting"
    /\ IF ~Truthy(TrimmedName(name)) THEN
           /\ call' = [DomainCall("createItem", "POST", Some([name |-> name])) EXCEPT
                          !.pc = "settled",
                          !.envelope = Some(OnError("createItem",
                              [isError |-> TRUE,
                               message |-> <<"Item name is required">>]))]
           /\ UNCHANGED <<apiService, isConnected, requestCount>>
       ELSE MakeRequest(DomainCall("createItem", "POST", Some([name |-> name])), "POST",
                        <<BaseUrl, "/items">>, Some([name |-> name]))

UpdateItem(id, itemData) ==
    /\ call.pc # "awaiting"
    /\ IF id = "" THEN
           /\ call' = [DomainCall("updateItem", "PUT", Some([id |-> id, itemData |-> itemData])) EXCEPT
                          !.pc = "settled",
                          !.envelope = Some(OnError("updateItem",
                              [isError |-> TRUE,
                               message |-> <<"Item ID is required">>]))]
           /\ UNCHANGED <<apiService, isConnected, requestCount>>
       ELSE MakeRequest(DomainCall("updateItem", "PUT", Some([id |-> id, itemData |-> itemData])), "PUT",
                        <<BaseUrl, "/items/", id>>, Some(itemData))

DeleteItem(id) ==
    /\ call.pc # "awaiting"
    /\ IF id = "" THEN
           /\ call' = [DomainCall("deleteItem", "DELETE", Some([id |-> id])) EXCEPT
                          !.pc = "settled",
                          !.envelope = Some(OnError("deleteItem",
                              [isError |-> TRUE,
                               message |-> <<"Item ID is required">>]))]
           /\ UNCHANGED <<apiService, isConnected, requestCount>>
       ELSE MakeRequest(DomainCall("deleteItem", "DELETE", Some([id |-> id])), "DELETE",
                        <<BaseUrl, "/items/", id>>, None)

\* the status operation sent to the health path
GetStatusHealthPath ==
    /\ call.pc # "awaiting"
    /\ MakeRequest(NewCall("domain", "getStatus", "GET"), "GET",
                   <<BaseUrl, "/health">>, None)

GetStatus ==
    /\ call.pc # "awaiting"
    /\ MakeRequest(NewCall("domain", "getStatus", "GET"), "GET",
                   <<BaseUrl, "/status">>, None)

HealthCheck ==
    /\ call.pc # "awaiting"
    /\ MakeRequest(NewCall("domain", "healthCheck", "GET"), "GET",
                   <<BaseUrl, "/health">>, None)

----------------------------------------------------------------------------
(* DemoApiService: validateItemData *)

NameMax == 100
DescriptionMax == 500

\* the string of n copies of one character
Rep(c, n) == [k \in 1..n |-> c]

NameLens == {0, 1, NameMax - 1, NameMax, NameMax + 1}
DescriptionLens == {0, 1, DescriptionMax, DescriptionMax + 1}

\* names and descriptions around the limits; None is a field that is
\* missing or undefined
ValidateNames ==
    {None, Some(<<" ", "a", " ">>)}
    \cup {Some(Rep(c, n)) : c \in NameChars, n \in NameLens}
ValidateDescriptions == {None} \cup {Some(Rep("d", n)) : n \in DescriptionLens}
ValidateInputs == [name : ValidateNames, description : ValidateDescriptions]

NameErrors(data) ==
    IF data.name = None THEN << >>
    ELSE IF Trim(data.name[1]) = << >> THEN <<"Name is required">>
    ELSE IF Len(data.name[1]) > NameMax THEN <<"Name must be 100 characters or less">>
    ELSE << >>

DescriptionErrors(data) ==
    IF data.description # None /\ Len(data.description[1]) > DescriptionMax
    THEN <<"Description must be 500 characters or less">>
    ELSE << >>

\* as ValidateErrors, stopping at the first field that has an error
ValidateErrorsFirstOnly(data) ==
    IF NameErrors(data) # << >> THEN NameErrors(data) ELSE DescriptionErrors(data)

ValidateErrors(data) == NameErrors(data) \o DescriptionErrors(data)

ValidateItemData(data) ==
    /\ call.pc # "awaiting"
    /\ call' = [DomainCall("validateItemData", "none", Some(data)) EXCEPT
                   !.pc = "settled",
                   !.validation = Some([isValid |-> ValidateErrors(data) = << >>,
                                        errors  |-> ValidateErrors(data)])]
    /\ UNCHANGED <<apiService, isConnected, requestCount>>

\* createItem called with a request that carries a name and a description;
\* the request goes to the wrapper as it is
CreateItemData(itemData) ==
    /\ call.pc # "awaiting"
    /\ IF ~Truthy(TrimmedName(itemData.name)) THEN
           /\ call' = [DomainCall("createItem", "POST", Some(itemData)) EXCEPT
                          !.pc = "settled",
                          !.envelope = Some(OnError("createItem",
                              [isError |-> TRUE,
                               message |-> <<"Item name is required">>]))]
           /\ UNCHANGED <<apiService, isConnected, requestCount>>
       ELSE MakeRequest(DomainCall("createItem", "POST", Some(itemData)), "POST",
                        <<BaseUrl, "/items">>, Some(itemData))

----------------------------------------------------------------------------
(* ExternalApiService: values *)

TargetUrl == "https://community.braindrive.ai/"

\* the delay of the abort timer, in milliseconds
TimeoutMs == 10000

\* the step by which elapsed time advances, in milliseconds
TickMs == 10000

MaxChecks == 3
MaxCount == 2

Min(a, b) == IF a <= b THEN a ELSE b

\* what fetch can resolve with: an opaque response (status 0) or a status
FetchResponses == {[status |-> 0], [status |-> 200]}

\* texts of the errors fetch can reject with
FetchMessages == {<< >>, <<"x">>, <<"NetworkError">>, <<"Failed to fetch">>}

\* what fetch can throw or reject with: Error objects, and values that are
\* no Error
FetchErrors ==
    {[isError |-> TRUE, name |-> n, message |-> m] :
        n \in {"AbortError", "TypeError"}, m \in FetchMessages}
    \cup {[isError |-> FALSE, name |-> "none", message |-> << >>]}

\* what fetch rejects with when its signal is aborted
AbortError ==
    [isError |-> TRUE, name |-> "AbortError", message |-> <<"The operation was aborted">>]

NoCheck ==
    [pc          |-> "none",     \* "none", "fetching" or "settled"
     caller      |-> "none",     \* "direct" or "multi"
     checkId     |-> 0,          \* checkCount after the increment
     round       |-> 0,          \* the caller's loop variable at the call
     countBefore |-> 0,          \* checkCount at the start
     elapsed     |-> 0,          \* time since the start
     timer       |-> "none",     \* the abort timer: "armed", "cleared" or "fired"
     cause       |-> "none",     \* how fetch settled: "resolved", "rejected", "aborted"
     thrown      |-> None,       \* what the try block threw
     escaped     |-> FALSE,      \* an exception left checkCommunityStatus
     envelope    |-> None]       \* what checkCommunityStatus returned

NoMulti ==
    [pc          |-> "none",     \* "none", "checking", "waiting" or "returned"
     count       |-> 0,
     intervalMs  |-> 0,
     i           |-> 0,          \* the loop variable
     results     |-> << >>,
     rounds      |-> << >>,      \* the round whose check gave each result
     waited      |-> << >>,      \* the time each wait between checks took
     waitElapsed |-> 0,          \* time since the current wait began
     escaped     |-> FALSE,      \* an exception left performMultipleChecks
     envelope    |-> None]       \* what performMultipleChecks returned

----------------------------------------------------------------------------
(* ExternalApiService: checkCommunityStatus *)

\* the try block after fetch has resolved
CheckSucceeded(c, response) ==
    [success |-> TRUE,
     data    |-> Some([url          |-> TargetUrl,
                       status       |-> "online",
                       responseTime |-> c.elapsed,
                       statusCode   |-> IF response.status # 0
                                        THEN Some(response.status) ELSE None,
                       error        |-> None]),
     error   |-> None]

\* as CatchStatus, without the branch for an aborted request
CatchStatusAbortOffline(error) == "offline"

CatchStatus(error) ==
    IF error.isError /\ error.name = "AbortError" THEN "error" ELSE "offline"

\* as CatchMessage, keeping the text of the abort's own error
CatchMessageRaw(error) ==
    IF ~error.isError THEN <<"Unknown error">>
    ELSE IF \/ Includes(error.message, "NetworkError")
            \/ Includes(error.message, "Failed to fetch")
         THEN <<"Network error - site may be down or unreachable">>
    ELSE error.message

CatchMessage(error) ==
    IF ~error.isError THEN <<"Unknown error">>
    ELSE IF error.name = "AbortError" THEN <<"Request timeout after 10 seconds">>
    ELSE IF \/ Includes(error.message, "NetworkError")
            \/ Includes(error.message, "Failed to fetch")
         THEN <<"Network error - site may be down or unreachable">>
    ELSE error.message

\* the catch block
CheckFailed(c, error) ==
    [success |-> FALSE,
     data    |-> Some([url          |-> TargetUrl,
                       status       |-> CatchStatus(error),
                       responseTime |-> c.elapsed,
                       statusCode   |-> None,
                       error        |-> Some(CatchMessage(error))]),
     error   |-> Some(CatchMessage(error))]

\* checkCommunityStatus up to the point where it awaits fetch
StartCheck(caller) ==
    [NoCheck EXCEPT !.pc = "fetching", !.caller = caller,
                    !.checkId = checkCount + 1,
                    !.countBefore = checkCount,
                    !.timer = "armed"]

MultiRunning == multi.pc \in {"checking", "waiting"}

\* checkCommunityStatus called from another component, up to await fetch
BeginCheck(caller) ==
    /\ check.pc # "fetching"
    /\ checkCount < MaxChecks
    /\ checkCount' = checkCount + 1
    /\ check' = StartCheck(caller)
    /\ UNCHANGED multi

\* as CheckCommunityStatus, without the increment of checkCount
CheckCommunityStatusNoCount ==
    /\ check.pc # "fetching"
    /\ ~MultiRunning
    /\ checkCount < MaxChecks
    /\ checkCount' = checkCount
    /\ check' = StartCheck("direct")
    /\ multi' = NoMulti
    /\ UNCHANGED <<wrapperVars, concurrencyVars, uiVars>>

CheckCommunityStatus ==
    /\ check.pc # "fetching"
    /\ ~MultiRunning
    /\ checkCount < MaxChecks
    /\ checkCount' = checkCount + 1
    /\ check' = StartCheck("direct")
    /\ multi' = NoMulti          \* the earlier run is no longer observed
    /\ UNCHANGED <<wrapperVars, concurrencyVars, uiVars>>

FetchResolves(response) ==
    /\ check.pc = "fetching"
    /\ check' = [check EXCEPT !.pc = "settled", !.timer = "cleared",
                              !.cause = "resolved",
                              !.envelope = Some(CheckSucceeded(check, response))]
    /\ UNCHANGED <<checkCount, multi, wrapperVars, concurrencyVars, uiVars>>

\* fetch throws or rejects before the timer fires; the timer stays armed and
\* its later abort of the settled request has no effect
FetchRejects(error) ==
    /\ check.pc = "fetching"
    /\ check' = [check EXCEPT !.pc = "settled", !.cause = "rejected",
                              !.thrown = Some(error),
                              !.envelope = Some(CheckFailed(check, error))]
    /\ UNCHANGED <<checkCount, multi, wrapperVars, concurrencyVars, uiVars>>

\* the timer fires while fetch is pending: controller.abort() rejects fetch
\* with an AbortError, which the catch block receives
TimerFires ==
    /\ check.pc = "fetching"
    /\ check.timer = "armed"
    /\ check.elapsed >= TimeoutMs
    /\ check' = [check EXCEPT !.pc = "settled", !.timer = "fired",
                              !.cause = "aborted",
                              !.thrown = Some(AbortError),
                              !.envelope = Some(CheckFailed(check, AbortError))]
    /\ UNCHANGED <<checkCount, multi, wrapperVars, concurrencyVars, uiVars>>

\* time passes while fetch is pending
TickCheck ==
    /\ check.pc = "fetching"
    /\ check.elapsed < TimeoutMs
    /\ check' = [check EXCEPT !.elapsed = Min(@ + TickMs, TimeoutMs)]
    /\ UNCHANGED <<checkCount, multi, wrapperVars, concurrencyVars, uiVars>>

ResetStats ==
    /\ checkCount' = 0
    /\ UNCHANGED <<check, multi, wrapperVars, concurrencyVars, uiVars>>

----------------------------------------------------------------------------
(* ExternalApiService: performMultipleChecks *)

Intervals == {0, TickMs}

MultiReturn(m) ==
    [m EXCEPT !.pc = "returned",
              !.envelope = Some([success |-> TRUE, data |-> m.results, error |-> None])]

\* the catch block: the partial results and the error's text
MultiCaught(m, error) ==
    [m EXCEPT !.pc = "returned",
              !.envelope = Some([success |-> FALSE, data |-> m.results,
                                 error |-> Some(IF error.isError THEN error.message
                                                ELSE <<"Multiple checks failed">>)])]

\* the call, up to the first await: the loop's first round has no wait
PerformMultipleChecks(count, intervalMs) ==
    /\ ~MultiRunning
    /\ check.pc # "fetching"
    /\ LET m == [NoMulti EXCEPT !.count = count, !.intervalMs = intervalMs] IN
       IF count <= 0 THEN
           /\ multi' = MultiReturn(m)
           /\ UNCHANGED <<checkCount, check>>
       ELSE
           /\ checkCount < MaxChecks
           /\ checkCount' = checkCount + 1
           /\ check' = [StartCheck("multi") EXCEPT !.round = m.i]
           /\ multi' = [m EXCEPT !.pc = "checking"]
    /\ UNCHANGED <<wrapperVars, concurrencyVars, uiVars>>

\* as MultiContinue, keeping only the results of successful checks
MultiContinueSuccessOnly ==
    /\ multi.pc = "checking"
    /\ check.pc = "settled"
    /\ IF check.escaped THEN
           multi' = MultiCaught(multi, check.thrown[1])
       ELSE
           LET hasData == check.envelope[1].success
               m == [multi EXCEPT
                        !.results = IF hasData THEN Append(@, check.envelope[1].data[1])
                                    ELSE @,
                        !.rounds = IF hasData THEN Append(@, check.round) ELSE @,
                        !.i = @ + 1]
           IN  IF m.i < m.count
               THEN multi' = [m EXCEPT !.pc = "waiting", !.waitElapsed = 0]
               ELSE multi' = MultiReturn(m)
    /\ UNCHANGED <<checkCount, check, wrapperVars, concurrencyVars, uiVars>>

\* the awaited check has returned: push its data, then wait or return
MultiContinue ==
    /\ multi.pc = "checking"
    /\ check.pc = "settled"
    /\ IF check.escaped THEN
           multi' = MultiCaught(multi, check.thrown[1])
       ELSE
           LET hasData == check.envelope[1].data # None
               m == [multi EXCEPT
                        !.results = IF hasData THEN Append(@, check.envelope[1].data[1])
                                    ELSE @,
                        !.rounds = IF hasData THEN Append(@, check.round) ELSE @,
                        !.i = @ + 1]
           IN  IF m.i < m.count
               THEN multi' = [m EXCEPT !.pc = "waiting", !.waitElapsed = 0]
               ELSE multi' = MultiReturn(m)
    /\ UNCHANGED <<checkCount, check, wrapperVars, concurrencyVars, uiVars>>

\* time passes during the wait between two checks
TickWait ==
    /\ multi.pc = "waiting"
    /\ multi.waitElapsed < multi.intervalMs
    /\ multi' = [multi EXCEPT !.waitElapsed = Min(@ + TickMs, multi.intervalMs)]
    /\ UNCHANGED <<checkCount, check, wrapperVars, concurrencyVars, uiVars>>

\* the wait's timer fires: the next round's check begins
WaitElapses ==
    /\ multi.pc = "waiting"
    /\ multi.waitElapsed >= multi.intervalMs
    /\ checkCount < MaxChecks
    /\ checkCount' = checkCount + 1
    /\ check' = [StartCheck("multi") EXCEPT !.round = multi.i]
    /\ multi' = [multi EXCEPT !.pc = "checking", !.waited = Append(@, multi.waitElapsed)]
    /\ UNCHANGED <<wrapperVars, concurrencyVars, uiVars>>

----------------------------------------------------------------------------
(* Wrapper requests in flight together *)

\* a transport failure with no response, and a thrown value that is no object
FewErrors ==
    {e \in RawErrors : e.response = None /\ e.code = "none" /\ e.message = None}

\* the requests issued since the wrapper last had none in flight:
\* requestCount before the first of them, and the number each one received
NoBatch == [prior |-> 0, numbers |-> << >>]

InFlight == {i \in 1..Len(parked) : parked[i].pc = "awaiting"}

\* the caller goes on without awaiting the request it has just issued
Park ==
    /\ call.pc = "awaiting"
    /\ parked' = Append(parked, call)
    /\ call' = NoCall
    /\ UNCHANGED <<apiService, isConnected, requestCount, batch, checkerVars, uiVars>>

\* the bookkeeping of a request issued in this step; the requests followed
\* are those issued on a connected wrapper
Issued ==
    IF InFlight = {}
    THEN /\ parked' = << >>
         /\ batch' = [prior |-> requestCount, numbers |-> <<call'.countIssued>>]
    ELSE /\ parked' = parked
         /\ batch' = [batch EXCEPT !.numbers = Append(@, call'.countIssued)]

IssueGet(path) ==
    /\ IsServiceConnected
    /\ Get(path)
    /\ Issued
    /\ UNCHANGED <<checkerVars, uiVars>>

IssuePut(path, data) ==
    /\ IsServiceConnected
    /\ Put(path, data)
    /\ Issued
    /\ UNCHANGED <<checkerVars, uiVars>>

\* the transport settles a request that was issued earlier
ParkedResolves(i, response) ==
    /\ parked[i].pc = "awaiting"
    /\ parked' = [parked EXCEPT ![i] =
                      Returned([@ EXCEPT !.endTime = now, !.resolved = Some(response)],
                               ApiResponseOf(@, response))]
    /\ UNCHANGED <<wrapperVars, batch, checkerVars, uiVars>>

ParkedRejects(i, error) ==
    /\ parked[i].pc = "awaiting"
    /\ parked' = [parked EXCEPT ![i] = Threw(@, HandleApiError(error))]
    /\ UNCHANGED <<wrapperVars, batch, checkerVars, uiVars>>

\* the transport settles the request issued last, or a transport is installed
Latest(A) == A /\ UNCHANGED <<parked, batch, checkerVars, uiVars>>

----------------------------------------------------------------------------
(* The clock *)

MaxNow == 2

\* time passes
Tick ==
    /\ now < MaxNow
    /\ now' = now + 1
    /\ UNCHANGED <<wrapperVars, checkerVars, concurrencyVars, ui, host>>

----------------------------------------------------------------------------
(* ApiExample: the component *)

\* the delay of the timer that puts the status line back, in milliseconds
ResetDelayMs == 3000

Ready == "Ready for API operations"
ErrorOccurred == "Error occurred - check console for details"

\* the handlers that set isLoading
LoadingHandlers == {"create", "update", "delete", "test"}

\* this.state after the constructor, with the position of the handler in
\* flight; currentTheme, currentDemo, activeTab, state.isServiceConnected
\* (never written after the constructor) and data.requestCount are left out
NoUi ==
    [mounted            |-> FALSE,
     isLoading          |-> FALSE,
     error              |-> << >>,
     isInitializing     |-> TRUE,
     status             |-> "Initializing API Service Bridge...",
     apiServiceConnected |-> FALSE,     \* state.data.apiServiceConnected
     demoItems          |-> "empty",    \* state.data.demoItems: "empty" or "items"
     externalApiStatus  |-> "unknown",  \* state.data.externalApiStatus
     handler            |-> "none",     \* "init", "create", "update", "delete",
                                        \* "refresh" or "test"
     pc                 |-> "idle",     \* "loading", "awaitItems", "awaitOp",
                                        \* "awaitRefresh" or "awaitCheck"
     timers             |-> {},         \* time left on each pending status timer
     reported           |-> FALSE,      \* a handler set the status to its error
                                        \* text and no operation began since
     last               |-> [kind |-> "none", refreshFailed |-> FALSE]]
                                        \* the handler that finished last

\* render(): which of the three views is shown
Rendered(u) ==
    IF u.isInitializing THEN "loading"
    ELSE IF u.error # << >> THEN "error"
    ELSE "content"

\* the buttons of the tabs respond: the content is shown and not disabled
Clickable ==
    /\ ui.mounted
    /\ ui.handler = "none"
    /\ Rendered(ui) = "content"
    /\ ~ui.isLoading

\* extractErrorMessage applied to new Error(text)
ExtractErrorMessage(text) == IF text # << >> THEN text ELSE <<"Error">>

\* result.error || fallback
ErrorOr(envelope, fallback) ==
    IF Truthy(envelope.error) THEN envelope.error[1] ELSE <<fallback>>

\* as Finally, without clearing isLoading
FinallyKeepsLoading(u) ==
    [u EXCEPT !.handler = "none", !.pc = "idle",
              !.last = [kind |-> u.handler, refreshFailed |-> u.last.refreshFailed]]

\* the finally block of a handler, and the handler's end
Finally(u) ==
    [u EXCEPT !.isLoading = FALSE, !.handler = "none", !.pc = "idle",
              !.last = [kind |-> u.handler, refreshFailed |-> u.last.refreshFailed]]

\* the catch block of create, update and delete
Caught(u, prefix, envelope, fallback) ==
    [u EXCEPT !.error = <<prefix>> \o ExtractErrorMessage(ErrorOr(envelope, fallback)),
              !.status = ErrorOccurred,
              !.reported = TRUE]

\* the success feedback of a handler and its status timer
Succeeded(u, status) ==
    [u EXCEPT !.status = status, !.error = << >>,
              !.timers = @ \cup {ResetDelayMs}]

\* the first setState of a handler that shows progress
Started(handler, pc) ==
    [ui EXCEPT !.isLoading = TRUE, !.error = << >>, !.handler = handler,
               !.pc = pc, !.reported = FALSE,
               !.last = [kind |-> "none", refreshFailed |-> FALSE]]

\* there is room below the bounds for the requests a handler may make
Room(n) == IsServiceConnected => requestCount + n <= MaxRequests

UiWithWrapper == UNCHANGED <<checkerVars, concurrencyVars, now, host>>
UiWithChecker == UNCHANGED <<wrapperVars, concurrencyVars, now, host>>
UiAlone == UNCHANGED <<wrapperVars, checkerVars, concurrencyVars, now, host>>

\* componentDidMount up to the call of loadInitialData
ComponentDidMount ==
    /\ ~ui.mounted
    /\ ui' = [ui EXCEPT !.mounted = TRUE, !.handler = "init", !.pc = "loading"]
    /\ IF host # Null THEN SetServiceBridge(host) ELSE UNCHANGED wrapperVars
    /\ UiWithWrapper

\* loadInitialData up to its first await
LoadInitialData ==
    /\ ui.pc = "loading"
    /\ IF IsServiceConnected THEN
           /\ GetItems
           /\ ui' = [ui EXCEPT !.pc = "awaitItems"]
           /\ UiWithWrapper
       ELSE
           /\ BeginCheck("init")
           /\ ui' = [ui EXCEPT !.pc = "awaitCheck"]
           /\ UiWithChecker

\* result.success && result.data
HasData(envelope) == envelope.success /\ envelope.data # None

\* loadInitialData after getItems has returned, up to the next await
InitItemsReturn ==
    /\ ui.handler = "init" /\ ui.pc = "awaitItems"
    /\ call.pc = "settled" /\ call.op = "getItems"
    /\ ui' = IF HasData(call.envelope[1])
             THEN [ui EXCEPT !.pc = "awaitCheck", !.apiServiceConnected = TRUE,
                             !.demoItems = "items"]
             ELSE [ui EXCEPT !.pc = "awaitCheck"]
    /\ BeginCheck("init")
    /\ UiWithChecker

\* loadInitialData after checkCommunityStatus has returned, to its end
InitCheckReturn ==
    /\ ui.handler = "init" /\ ui.pc = "awaitCheck"
    /\ check.pc = "settled" /\ check.caller = "init"
    /\ ui' = [ui EXCEPT
                  !.externalApiStatus = IF HasData(check.envelope[1])
                                        THEN check.envelope[1].data[1].status ELSE @,
                  !.isLoading = FALSE, !.isInitializing = FALSE,
                  !.error = << >>, !.status = Ready,
                  !.handler = "none", !.pc = "idle",
                  !.last = [kind |-> "init", refreshFailed |-> FALSE]]
    /\ UiAlone

\* the name the handlers give a new or updated item is never blank
ItemName == Some(<<"a">>)

HandleCreateItem ==
    /\ Clickable
    /\ Room(2)
    /\ ui' = Started("create", "awaitOp")
    /\ CreateItem(ItemName)
    /\ UiWithWrapper

HandleUpdateItem(itemId) ==
    /\ Clickable
    /\ ui.demoItems = "items"
    /\ Room(2)
    /\ ui' = Started("update", "awaitOp")
    /\ UpdateItem(itemId, [name |-> ItemName])
    /\ UiWithWrapper

HandleDeleteItem(itemId) ==
    /\ Clickable
    /\ ui.demoItems = "items"
    /\ Room(2)
    /\ ui' = Started("delete", "awaitOp")
    /\ DeleteItem(itemId)
    /\ UiWithWrapper

\* the refresh button: handleRefreshItems called on its own
HandleRefreshItems ==
    /\ Clickable
    /\ ui' = [ui EXCEPT !.handler = "refresh", !.pc = "awaitRefresh",
                        !.reported = FALSE,
                        !.last = [kind |-> "none", refreshFailed |-> FALSE]]
    /\ GetItems
    /\ UiWithWrapper

\* the test and refresh-status buttons
HandleTestConnection ==
    /\ Clickable
    /\ ui' = Started("test", "awaitCheck")
    /\ BeginCheck("test")
    /\ UiWithChecker

UiPrefix(handler) ==
    CASE handler = "create" -> "Failed to create item: "
      [] handler = "update" -> "Failed to update item: "
      [] handler = "delete" -> "Failed to delete item: "

UiFallback(handler) ==
    CASE handler = "create" -> "Failed to create item"
      [] handler = "update" -> "Failed to update item"
      [] handler = "delete" -> "Failed to delete item"

SuccessStatus(handler) ==
    CASE handler = "create" -> "Item created successfully!"
      [] handler = "update" -> "Item updated successfully!"
      [] handler = "delete" -> "Item deleted successfully!"

\* create, update, delete after the domain operation has returned: on
\* success up to the await in handleRefreshItems, else to the handler's end
OperationReturns ==
    /\ ui.handler \in {"create", "update", "delete"} /\ ui.pc = "awaitOp"
    /\ call.pc = "settled" /\ call.layer = "domain"
    /\ IF call.envelope[1].success THEN
           /\ GetItems
           /\ ui' = [ui EXCEPT !.pc = "awaitRefresh"]
           /\ UiWithWrapper
       ELSE
           /\ ui' = Finally(Caught(ui, UiPrefix(ui.handler), call.envelope[1],
                                   UiFallback(ui.handler)))
           /\ UiAlone

\* handleRefreshItems after getItems has returned
Refreshed(u, envelope) ==
    IF HasData(envelope)
    THEN [u EXCEPT !.demoItems = "items"]
    ELSE [u EXCEPT !.error = <<"Failed to refresh items: ">>
                         \o ExtractErrorMessage(ErrorOr(envelope, "Failed to refresh items")),
                   !.last = [@ EXCEPT !.refreshFailed = TRUE]]

\* getItems has returned to handleRefreshItems: the refresh button's handler
\* ends, and create, update, delete go on to their success feedback
RefreshReturns ==
    /\ ui.pc = "awaitRefresh"
    /\ call.pc = "settled" /\ call.op = "getItems"
    /\ LET u == Refreshed(ui, call.envelope[1]) IN
       ui' = IF ui.handler = "refresh"
             THEN [u EXCEPT !.handler = "none", !.pc = "idle",
                            !.last = [kind |-> "refresh",
                                      refreshFailed |-> u.last.refreshFailed]]
             ELSE Finally(Succeeded(u, SuccessStatus(ui.handler)))
    /\ UiAlone

\* handleTestConnection after checkCommunityStatus has returned
TestReturns ==
    /\ ui.handler = "test" /\ ui.pc = "awaitCheck"
    /\ check.pc = "settled" /\ check.caller = "test"
    /\ ui' = IF HasData(check.envelope[1])
             THEN Finally([ui EXCEPT
                     !.externalApiStatus = check.envelope[1].data[1].status,
                     !.status = "Connection test completed successfully!",
                     !.timers = @ \cup {ResetDelayMs}])
             ELSE Finally([ui EXCEPT
                     !.error = <<"Connection test failed: ">>
                         \o ExtractErrorMessage(ErrorOr(check.envelope[1],
                                                        "Connection test failed")),
                     !.status = "Connection test failed - check console for details",
                     !.reported = TRUE])
    /\ UiAlone

\* time passes for the pending status timers
TimersAdvance ==
    /\ \E t \in ui.timers : t > 0
    /\ ui' = [ui EXCEPT !.timers = {IF t > TickMs THEN t - TickMs ELSE 0 : t \in @}]
    /\ UiAlone

\* a status timer fires
StatusTimerFires ==
    /\ 0 \in ui.timers
    /\ ui' = [ui EXCEPT !.status = Ready, !.timers = @ \ {0}]
    /\ UiAlone

\* the host passes another api service in the props, or none; the component
\* has no componentDidUpdate and only renders again
HostChanges(service) ==
    /\ service # host
    /\ ui.pc # "loading"
    /\ host' = service
    /\ UNCHANGED <<wrapperVars, checkerVars, concurrencyVars, now, ui>>


----------------------------------------------------------------------------
(* The wrapper and the domain service under any caller and any transport *)

Init ==
    /\ apiService = Null
    /\ isConnected = FALSE
    /\ requestCount = 0
    /\ call = NoCall
    /\ checkCount = 0
    /\ check = NoCheck
    /\ multi = NoMulti
    /\ parked = << >>
    /\ batch = NoBatch
    /\ now = 0
    /\ ui = NoUi
    /\ host = Null

\* the checker and the set-aside requests take no part
WrapperOnly == UNCHANGED <<checkCount, check, multi, parked, batch, now, ui, host>>

Next ==
    \/ WrapperOnly /\ \E service \in Transports \cup {Null} : SetServiceBridge(service)
    \/ WrapperOnly /\ \E path \in Paths : Get(path)
    \/ WrapperOnly /\ \E path \in Paths, data \in Payloads : Post(path, data)
    \/ WrapperOnly /\ \E path \in Paths, data \in Payloads : Put(path, data)
    \/ WrapperOnly /\ \E path \in Paths : Delete(path)
    \/ WrapperOnly /\ \E response \in Responses : TransportResolves(response)
    \/ WrapperOnly /\ \E error \in RawErrors : TransportRejects(error)
    \/ WrapperOnly /\ GetItems
    \/ WrapperOnly /\ \E name \in Names : CreateItem(name)
    \/ WrapperOnly /\ \E id \in Ids, itemData \in UpdateRequests : UpdateItem(id, itemData)
    \/ WrapperOnly /\ \E id \in Ids : DeleteItem(id)
    \/ WrapperOnly /\ GetStatus
    \/ WrapperOnly /\ HealthCheck

Spec == Init /\ [][Next]_vars

----------------------------------------------------------------------------
(* Wrapper requests while time passes *)

NextTimed ==
    \/ WrapperOnly /\ \E service \in Transports : SetServiceBridge(service)
    \/ WrapperOnly /\ \E path \in Paths : Get(path)
    \/ WrapperOnly /\ \E path \in Paths, data \in Payloads : Post(path, data)
    \/ WrapperOnly /\ \E response \in Responses : TransportResolves(response)
    \/ WrapperOnly /\ \E error \in FewErrors : TransportRejects(error)
    \/ Tick

SpecTimed == Init /\ [][NextTimed]_vars

----------------------------------------------------------------------------
(* The classifier alone, applied to every raw error *)

Classify(error) ==
    /\ call.pc = "none"
    /\ call' = [NoCall EXCEPT !.pc = "settled", !.layer = "classifier",
                              !.op = "handleApiError",
                              !.raw = Some(error),
                              !.apiError = Some(HandleApiError(error))]
    /\ UNCHANGED <<apiService, isConnected, requestCount>>

NextClassify == WrapperOnly /\ \E error \in RawErrors : Classify(error)

SpecClassify == Init /\ [][NextClassify]_vars

----------------------------------------------------------------------------
(* validateItemData on a wrapper in any connection state *)

NextValidate ==
    \/ WrapperOnly /\ \E data \in ValidateInputs : ValidateItemData(data)
    \/ WrapperOnly /\ \E service \in Transports \cup {Null} : SetServiceBridge(service)
    \/ WrapperOnly /\ GetItems
    \/ WrapperOnly /\ \E response \in Responses : TransportResolves(response)

SpecValidate == Init /\ [][NextValidate]_vars

----------------------------------------------------------------------------
(* createItem with names and descriptions around the limits *)

NextCreate ==
    \/ WrapperOnly /\ \E service \in Transports : SetServiceBridge(service)
    \/ WrapperOnly /\ \E itemData \in ValidateInputs : CreateItemData(itemData)
    \/ WrapperOnly /\ \E response \in Responses : TransportResolves(response)
    \/ WrapperOnly /\ \E error \in FewErrors : TransportRejects(error)

SpecCreate == Init /\ [][NextCreate]_vars

----------------------------------------------------------------------------
(* The component with its host, its user, the transport and the network *)

TransportSettles ==
    WrapperOnly /\ \/ \E response \in Responses : TransportResolves(response)
                   \/ \E error \in FewErrors : TransportRejects(error)

\* fetch settles in any of its ways; an abort by the 10-second timer reaches
\* the component as a rejection named AbortError does
FetchSettles ==
    \/ \E response \in FetchResponses : FetchResolves(response)
    \/ \E error \in FetchErrors : FetchRejects(error)

NextUi ==
    \/ \E service \in Transports \cup {Null} : HostChanges(service)
    \/ ComponentDidMount
    \/ LoadInitialData
    \/ InitItemsReturn
    \/ InitCheckReturn
    \/ HandleCreateItem
    \/ \E itemId \in Ids : HandleUpdateItem(itemId)
    \/ \E itemId \in Ids : HandleDeleteItem(itemId)
    \/ HandleRefreshItems
    \/ HandleTestConnection
    \/ OperationReturns
    \/ RefreshReturns
    \/ TestReturns
    \/ TimersAdvance
    \/ StatusTimerFires
    \/ TransportSettles
    \/ FetchSettles

SpecUi == Init /\ [][NextUi]_vars

\* promise continuations run, network calls settle, time does not stop
SpecUiFair ==
    /\ SpecUi
    /\ WF_vars(OperationReturns) /\ WF_vars(RefreshReturns) /\ WF_vars(TestReturns)
    /\ WF_vars(TransportSettles) /\ WF_vars(FetchSettles)

----------------------------------------------------------------------------
(* The checker under any caller and any network *)

NextChecker ==
    \/ CheckCommunityStatus
    \/ \E response \in FetchResponses : FetchResolves(response)
    \/ \E error \in FetchErrors : FetchRejects(error)
    \/ TimerFires
    \/ TickCheck
    \/ ResetStats

SpecChecker == Init /\ [][NextChecker]_vars

\* timers fire when due and time does not stop
SpecCheckerFair ==
    SpecChecker /\ WF_vars(TickCheck) /\ WF_vars(TimerFires)

NextMulti ==
    \/ \E count \in 0..MaxCount, intervalMs \in Intervals :
           PerformMultipleChecks(count, intervalMs)
    \/ MultiContinue
    \/ TickWait
    \/ WaitElapses
    \/ \E response \in FetchResponses : FetchResolves(response)
    \/ \E error \in FetchErrors : FetchRejects(error)
    \/ TimerFires
    \/ TickCheck
    \/ ResetStats

SpecMulti == Init /\ [][NextMulti]_vars

----------------------------------------------------------------------------
(* The wrapper and the checker side by side *)

NextCounters ==
    \/ WrapperOnly /\ \E service \in Transports \cup {Null} : SetServiceBridge(service)
    \/ WrapperOnly /\ \E path \in Paths : Get(path)
    \/ WrapperOnly /\ \E response \in Responses : TransportResolves(response)
    \/ WrapperOnly /\ \E error \in FewErrors : TransportRejects(error)
    \/ CheckCommunityStatus
    \/ \E response \in FetchResponses : FetchResolves(response)
    \/ \E error \in FetchErrors : FetchRejects(error)
    \/ TimerFires
    \/ TickCheck
    \/ ResetStats

SpecCounters == Init /\ [][NextCounters]_vars

----------------------------------------------------------------------------
(* Wrapper requests issued without awaiting the earlier ones *)

NextConcurrent ==
    \/ Latest(\E service \in Transports : SetServiceBridge(service))
    \/ \E path \in Paths : IssueGet(path)
    \/ \E path \in Paths, data \in Payloads : IssuePut(path, data)
    \/ Park
    \/ Latest(\E response \in Responses : TransportResolves(response))
    \/ Latest(\E error \in FewErrors : TransportRejects(error))
    \/ \E i \in InFlight, response \in Responses : ParkedResolves(i, response)
    \/ \E i \in InFlight, error \in FewErrors : ParkedRejects(i, error)

SpecConcurrent == Init /\ [][NextConcurrent]_vars

----------------------------------------------------------------------------
(* Properties *)

RequestOps == {"get", "post", "put", "delete"}

\* C1: a wrapper request made while no transport is installed throws a
\* classified error with code SERVICE_NOT_CONNECTED, calls no transport
\* method and leaves the request counter at its prior value.
C1_NotConnected ==
    (call.layer = "wrapper" /\ ~call.hadTransport) =>
        /\ call.pc = "settled"
        /\ call.outcome = "threw"
        /\ call.apiError # None
        /\ call.apiError[1].code = "SERVICE_NOT_CONNECTED"
        /\ call.transportCalls = << >>
        /\ call.countIssued = call.countBefore
        /\ requestCount = call.countBefore

\* a request made after the transport was replaced by null, with requests
\* already counted
C1_Witness ==
    /\ call.layer = "wrapper"
    /\ call.op \in RequestOps
    /\ ~call.hadTransport
    /\ isConnected
    /\ call.countBefore > 0
    /\ call.apiError # None
    /\ call.apiError[1].code = "SERVICE_NOT_CONNECTED"

\* the fixed (code, message) pairs of the status table
TableStatuses == {400, 401, 403, 404, 422, 500, 503}

TableCode(status) ==
    CASE status = 400 -> "BAD_REQUEST"
      [] status = 401 -> "UNAUTHORIZED"
      [] status = 403 -> "FORBIDDEN"
      [] status = 404 -> "NOT_FOUND"
      [] status = 422 -> "VALIDATION_ERROR"
      [] status = 500 -> "INTERNAL_SERVER_ERROR"
      [] status = 503 -> "SERVICE_UNAVAILABLE"
      [] OTHER -> "HTTP_ERROR"

TableMessage(status) ==
    CASE status = 400 -> <<"Bad request - please check your input">>
      [] status = 401 -> <<"Authentication required - please log in">>
      [] status = 403 -> <<"Access denied - you don't have permission for this action">>
      [] status = 404 -> <<"Resource not found">>
      [] status = 422 -> <<"Validation error - please check your input">>
      [] status = 500 -> <<"Server error - please try again later">>
      [] status = 503 -> <<"Service unavailable - please try again later">>

\* the server-supplied text of a response body: its detail, else its message
ServerText(data) ==
    IF data = None THEN None
    ELSE IF data[1].detail # None /\ data[1].detail[1] # << >> THEN data[1].detail
    ELSE IF data[1].message # None /\ data[1].message[1] # << >> THEN data[1].message
    ELSE None

Classified == call.op = "handleApiError" /\ call.raw # None /\ call.apiError # None

\* C2: an error carrying a response with a status of the table is classified
\* with exactly the table's (code, message) pair, unless a server-supplied
\* text is present and the status is neither 401 nor 403.
C2_FixedPair ==
    (/\ Classified
     /\ call.raw[1].response # None
     /\ call.raw[1].response[1].status \in TableStatuses
     /\ \/ ServerText(call.raw[1].response[1].data) = None
        \/ call.raw[1].response[1].status \in {401, 403}) =>
        /\ call.apiError[1].code = TableCode(call.raw[1].response[1].status)
        /\ call.apiError[1].message = TableMessage(call.raw[1].response[1].status)

\* C3: a server-supplied detail or message becomes the classified error's
\* message for every status except 401 and 403, which keep their fixed text.
C3_ServerText ==
    (Classified /\ call.raw[1].response # None) =>
        LET status == call.raw[1].response[1].status
            text   == ServerText(call.raw[1].response[1].data)
        IN  /\ (text # None /\ status \notin {401, 403}) =>
                   call.apiError[1].message = text[1]
            /\ status \in {401, 403} =>
                   call.apiError[1].message = TableMessage(status)

\* C4: when a domain operation fails because the wrapper threw a classified
\* error, the envelope's error string is that error's message.
C4_EnvelopeMessage ==
    (call.layer = "domain" /\ call.pc = "settled" /\ call.outcome = "threw") =>
        call.envelope[1].error = Some(call.apiError[1].message)

\* C5: every domain operation returns an envelope and throws nothing,
\* whatever the transport does; a failure envelope carries a non-empty error
\* string and a success envelope carries none.
C5_Envelope ==
    (call.layer = "domain" /\ call.pc = "settled") =>
        /\ ~call.escaped
        /\ call.envelope # None
        /\ call.envelope[1].success => call.envelope[1].error = None
        /\ ~call.envelope[1].success =>
               /\ call.envelope[1].error # None
               /\ call.envelope[1].error[1] # << >>

\* a domain operation whose request the transport rejected
C5_Witness ==
    /\ call.layer = "domain"
    /\ call.pc = "settled"
    /\ call.outcome = "threw"
    /\ call.transportCalls # << >>
    /\ call.envelope # None
    /\ ~call.envelope[1].success

\* the transport method of each verb
MatchingMethod(verb) ==
    CASE verb = "GET" -> "get" [] verb = "POST" -> "post"
      [] verb = "PUT" -> "put" [] verb = "DELETE" -> "delete"

C8_CodeByStatus ==
    (Classified /\ call.raw[1].response # None) =>
        /\ call.apiError[1].code = TableCode(call.raw[1].response[1].status)
        /\ call.apiError[1].status = call.raw[1].response[1].status

\* a 503 whose body carries a server text and whose error is also a network
\* failure
C8_Witness ==
    /\ Classified
    /\ call.raw[1].response # None
    /\ call.raw[1].response[1].status = 503
    /\ ServerText(call.raw[1].response[1].data) # None
    /\ call.raw[1].code = "ERR_NETWORK"
    /\ call.apiError[1].code = "SERVICE_UNAVAILABLE"

MentionsTimeout(error) ==
    error.message # None /\ \E i \in DOMAIN error.message[1] : error.message[1][i] = "timeout"

\* C9: classification is total and first-match: a response decides by its
\* status; else a network failure gives NETWORK_ERROR with status 0; else a
\* message mentioning a timeout gives TIMEOUT with status 408; else
\* UNKNOWN_ERROR with status 500.
C9_FirstMatch ==
    (call.op = "handleApiError" /\ call.raw # None) =>
        /\ call.apiError # None
        /\ LET error == call.raw[1]
               e     == call.apiError[1]
           IN  IF error.response # None THEN
                   /\ e.code = TableCode(error.response[1].status)
                   /\ e.status = error.response[1].status
               ELSE IF error.code = "ERR_NETWORK" THEN
                   e.code = "NETWORK_ERROR" /\ e.status = 0
               ELSE IF MentionsTimeout(error) THEN
                   e.code = "TIMEOUT" /\ e.status = 408
               ELSE
                   e.code = "UNKNOWN_ERROR" /\ e.status = 500

\* a network failure whose message mentions a timeout
C9_Witness ==
    /\ Classified
    /\ call.raw[1].response = None
    /\ call.raw[1].code = "ERR_NETWORK"
    /\ MentionsTimeout(call.raw[1])
    /\ call.apiError[1].code = "NETWORK_ERROR"
    /\ call.apiError[1].status = 0

\* C10: every classified error the wrapper throws, on the not-connected path
\* and on every branch of the classifier, has a non-empty message.
C10_NonEmptyMessage ==
    call.apiError # None => call.apiError[1].message # << >>

\* a request the transport rejected with an error that has no usable message
C10_Witness ==
    /\ call.layer = "wrapper"
    /\ call.pc = "settled"
    /\ call.transportCalls # << >>
    /\ call.apiError # None
    /\ call.apiError[1].code = "UNKNOWN_ERROR"
    /\ call.apiError[1].message = <<"An unknown error occurred">>

\* a name that is missing, empty or only blanks
BlankName(name) == name = None \/ \A i \in 1..Len(name[1]) : name[1][i] = " "

\* the call is a domain operation whose arguments fail its local validation
FailsValidation(c) ==
    /\ c.layer = "domain"
    /\ \/ c.op = "createItem" /\ BlankName(c.input[1].name)
       \/ c.op \in {"updateItem", "deleteItem"} /\ c.input[1].id = ""

\* C11: create with a missing, empty or blank name, and update or delete
\* with an empty id, return a failure envelope without a wrapper request or a
\* transport call, and the request counter is unchanged.
C11_ShortCircuit ==
    FailsValidation(call) =>
        /\ call.pc = "settled"
        /\ call.envelope # None
        /\ ~call.envelope[1].success
        /\ call.outcome = "none"
        /\ call.requests = << >>
        /\ call.transportCalls = << >>
        /\ call.countIssued = call.countBefore
        /\ requestCount = call.countBefore

\* create with a name of blanks on a connected wrapper that has counted
C11_Witness ==
    /\ call.op = "createItem"
    /\ call.input[1].name # None
    /\ call.input[1].name[1] # << >>
    /\ BlankName(call.input[1].name)
    /\ call.hadTransport
    /\ call.countBefore > 0
    /\ call.envelope # None
    /\ call.envelope[1].error = Some(<<"Item name is required">>)

\* the verb and path each domain operation is to use
ExpectedRequest(c) ==
    CASE c.op = "getItems"    -> [method |-> "GET", path |-> <<"/api/v1/demo", "/items">>]
      [] c.op = "createItem"  -> [method |-> "POST", path |-> <<"/api/v1/demo", "/items">>]
      [] c.op = "updateItem"  ->
            [method |-> "PUT", path |-> <<"/api/v1/demo", "/items/", c.input[1].id>>]
      [] c.op = "deleteItem"  ->
            [method |-> "DELETE", path |-> <<"/api/v1/demo", "/items/", c.input[1].id>>]
      [] c.op = "getStatus"   -> [method |-> "GET", path |-> <<"/api/v1/demo", "/status">>]
      [] c.op = "healthCheck" -> [method |-> "GET", path |-> <<"/api/v1/demo", "/health">>]

\* C18: a domain operation that passes its local validation makes exactly one
\* wrapper request, with the verb and sub-path fixed for the operation and
\* the caller's id in the path.
C18_OneRequest ==
    (call.layer = "domain" /\ ~FailsValidation(call)) =>
        call.requests = <<ExpectedRequest(call)>>

\* an update of item-1 that reached the transport
C18_Witness ==
    /\ call.op = "updateItem"
    /\ call.input[1].id = "item-1"
    /\ call.pc = "settled"
    /\ Len(call.transportCalls) = 1
    /\ call.transportCalls[1].path = <<"/api/v1/demo", "/items/", "item-1">>
    /\ call.requests = <<[method |-> "PUT",
                          path |-> <<"/api/v1/demo", "/items/", "item-1">>]>>

\* the reachability result a settled check returned
CheckResult == check.envelope[1].data[1]

CheckSettled == check.pc = "settled"

TimeoutText == <<"Request timeout after 10 seconds">>

\* C12, safety part: a check is aborted only once 10 seconds have passed
\* with its request pending, and the result it then returns has status
\* 'error' and exactly the timeout text
C12_AbortedResult ==
    check.cause = "aborted" =>
        /\ CheckSettled
        /\ check.elapsed >= TimeoutMs
        /\ ~check.escaped
        /\ CheckResult.status = "error"
        /\ CheckResult.error = Some(TimeoutText)
        /\ check.envelope[1].error = Some(TimeoutText)

IsAbort(error) == error.isError /\ error.name = "AbortError"

C14_ErrorText ==
    CheckSettled =>
        /\ CheckResult.status = "online" => CheckResult.error = None
        /\ CheckResult.status \in {"offline", "error"} =>
               /\ CheckResult.error # None
               /\ CheckResult.error[1] # << >>

MultiReturned == multi.pc = "returned"

\* the number of checks a run has started so far
ChecksStarted == IF multi.pc = "checking" THEN multi.i + 1 ELSE multi.i

FailedProbe(result) == result.status # "online"

\* C15: performMultipleChecks(count, intervalMs) runs its checks one after
\* another and returns exactly count results in call order without throwing,
\* whatever each check's outcome; it waits intervalMs between consecutive
\* checks and not before the first
C15_Sequential ==
    /\ multi.pc # "none" =>
           /\ Len(multi.results) = multi.i
           /\ multi.rounds = [k \in 1..multi.i |-> k - 1]
           /\ Len(multi.waited) = IF ChecksStarted = 0 THEN 0 ELSE ChecksStarted - 1
           /\ \A k \in 1..Len(multi.waited) : multi.waited[k] >= multi.intervalMs
           /\ multi.pc = "waiting" => check.pc = "settled"
    /\ MultiReturned =>
           /\ ~multi.escaped
           /\ multi.envelope # None
           /\ multi.envelope[1].data = multi.results
           /\ Len(multi.envelope[1].data) = multi.count

C15_Witness ==
    /\ MultiReturned
    /\ multi.count >= 2
    /\ multi.intervalMs > 0
    /\ Len(multi.waited) = multi.count - 1
    /\ \E k \in 1..Len(multi.results) : FailedProbe(multi.results[k])
    /\ \E k \in 1..Len(multi.results) : ~FailedProbe(multi.results[k])

\* C16: when one or more checks of a run fail, the returned envelope holds
\* all completed results together with a summary error string
C16_PartialFailure ==
    (MultiReturned /\ \E k \in 1..Len(multi.results) : FailedProbe(multi.results[k])) =>
        /\ multi.envelope[1].data = multi.results
        /\ multi.envelope[1].error # None

Validated == call.op = "validateItemData" /\ call.pc = "settled"

InSeq(x, seq) == \E k \in 1..Len(seq) : seq[k] = x

NameRequired == "Name is required"
NameTooLong == "Name must be 100 characters or less"
DescriptionTooLong == "Description must be 500 characters or less"

NameError(errors) == InSeq(NameRequired, errors) \/ InSeq(NameTooLong, errors)

LongDescription(data) ==
    data.description # None /\ Len(data.description[1]) > DescriptionMax

\* what C17 says of every input alike: validateItemData touches neither the
\* transport nor the counter, isValid says that errors is empty, and errors
\* holds a name error when the name is blank after trimming (a missing
\* name included) or longer than 100 characters, and a description error
\* when the description is longer than 500 characters
C17_EveryInput ==
    Validated =>
        LET data == call.input[1]
            v == call.validation[1]
        IN  /\ call.requests = << >> /\ call.transportCalls = << >>
            /\ requestCount = call.countBefore
            /\ v.isValid = (v.errors = << >>)
            /\ BlankName(data.name) => NameError(v.errors)
            /\ (data.name # None /\ Len(data.name[1]) > NameMax) => NameError(v.errors)
            /\ LongDescription(data) => InSeq(DescriptionTooLong, v.errors)

\* C17, amended: as above, but the name is checked only when the input has
\* one. A name that is present and blank after trimming gives 'Name is
\* required', a name that is present, not blank and longer than 100
\* characters gives the length error, a missing name gives no name error,
\* and the errors of both fields are in the list together
C17_Validate ==
    Validated =>
        LET data == call.input[1]
            v == call.validation[1]
            blank == data.name # None /\ BlankName(data.name)
            long == data.name # None /\ ~BlankName(data.name) /\ Len(data.name[1]) > NameMax
        IN  /\ call.requests = << >> /\ call.transportCalls = << >>
            /\ ~call.escaped
            /\ requestCount = call.countBefore
            /\ v.isValid = (v.errors = << >>)
            /\ InSeq(NameRequired, v.errors) <=> blank
            /\ InSeq(NameTooLong, v.errors) <=> long
            /\ InSeq(DescriptionTooLong, v.errors) <=> LongDescription(data)
            /\ Len(v.errors) = (IF blank \/ long THEN 1 ELSE 0)
                                + (IF LongDescription(data) THEN 1 ELSE 0)

\* both fields in error on a connected wrapper
C17_Witness ==
    /\ Validated
    /\ IsServiceConnected
    /\ Len(call.validation[1].errors) = 2
    /\ ~call.validation[1].isValid

\* a step in which a call of checkCommunityStatus begins
CheckBegins == check'.pc = "fetching" /\ check.pc # "fetching"

\* a step in which a call of checkCommunityStatus returns
CheckReturns == check.pc = "fetching" /\ check'.pc = "settled"

CountersStep ==
    /\ requestCount' >= requestCount
    /\ CheckBegins => checkCount' = checkCount + 1
    /\ CheckReturns => checkCount' = checkCount
    /\ checkCount' > checkCount => CheckBegins
    /\ checkCount' < checkCount => (checkCount' = 0 /\ UNCHANGED <<check, wrapperVars>>)
    /\ ResetStats => checkCount' = 0

\* C19: the wrapper's request counter never decreases; the check counter
\* goes up by exactly one per call of checkCommunityStatus whatever the
\* call's outcome, goes down only through resetStats, and is 0 right after
\* resetStats
C19_Counters == [][CountersStep]_vars

\* a reset after two checks, on a wrapper that has counted a request
C19_Witness ==
    /\ checkCount = 0
    /\ check.checkId >= 2
    /\ CheckSettled
    /\ requestCount >= 1

AllSettled == call.pc # "awaiting" /\ InFlight = {}

Distinct(seq) == \A i, j \in 1..Len(seq) : i # j => seq[i] # seq[j]

\* C20: for any interleaving of k requests issued concurrently on a
\* connected wrapper, requestCount after all have settled is its prior value
\* plus k, and no two requests received the same request number
C20_Concurrent ==
    (AllSettled /\ batch.numbers # << >>) =>
        /\ requestCount = batch.prior + Len(batch.numbers)
        /\ Distinct(batch.numbers)
        /\ \A i \in 1..Len(parked) : InSeq(parked[i].countIssued, batch.numbers)
        /\ \A i, j \in 1..Len(parked) :
               i # j => parked[i].countIssued # parked[j].countIssued

\* two requests were in flight together and both have settled
C20_Witness ==
    /\ AllSettled
    /\ Len(batch.numbers) >= 2
    /\ Len(parked) >= 1
    /\ requestCount = batch.prior + 2

C24_StatsAgree == GetStats.isConnected = IsServiceConnected

\* C30: createItem issues a POST only for inputs that validateItemData
\* accepts: no input with a name longer than 100 characters or a
\* description longer than 500 characters reaches the wrapper
C30_ValidatedOnly ==
    (call.op = "createItem" /\ call.requests # << >>) =>
        /\ ValidateErrors(call.input[1]) = << >>
        /\ Len(call.input[1].name[1]) <= NameMax
        /\ ~LongDescription(call.input[1])

Initialized == ui.mounted /\ ~ui.isInitializing

\* C22: when the host's api service changes after the component has mounted,
\* or becomes available for the first time, the component installs the new
\* service into the wrapper, so the wrapper becomes connected
C22_FollowsHost ==
    (Initialized /\ host # Null) =>
        /\ apiService = host
        /\ IsServiceConnected

LoadingInFlight == ui.handler \in LoadingHandlers

\* C23, safety part: isLoading is false whenever none of the handlers that
\* set it is in flight
C23_ClearedAtEnd == ~LoadingInFlight => ~ui.isLoading

\* C23: every handler that sets isLoading to true (create, update, delete,
\* test connection) sets it back to false when it finishes, on the success
\* path and on every failure path, and it does finish provided its network
\* calls settle
C23_LoadingCleared ==
    /\ []C23_ClearedAtEnd
    /\ LoadingInFlight ~> (~LoadingInFlight /\ ~ui.isLoading)

\* a create whose list refresh failed has finished
C23_Witness ==
    /\ ui.last.kind = "create"
    /\ ui.last.refreshFailed
    /\ ui.handler = "none"
    /\ ~ui.isLoading

\* C25: after initialization has finished and whenever no operation is in
\* flight, the tabbed content with its action buttons is rendered, so that
\* after a failed operation the user can still start another one
C25_ContentShown ==
    (Initialized /\ ui.handler = "none") => Rendered(ui) = "content"

UiOperations == {"create", "update", "delete", "refresh", "test"}

\* C26: isLoading is true in every state in which an operation started by a
\* handler (create, update, delete, refresh items, test connection) is in
\* flight
C26_LoadingWhileInFlight ==
    ui.handler \in UiOperations => ui.isLoading

\* C27: once a handler has reported a failure by setting the status to its
\* error text, the status is not 'Ready for API operations' again until the
\* user starts another operation; a status timer armed by an earlier
\* successful operation does not overwrite it
C27_FailureStays == ui.reported => ui.status # Ready

\* C28: if the list refresh run after a successful create, update or delete
\* fails, the error field is non-empty when the handler finishes
C28_RefreshFailureShown ==
    (ui.handler = "none" /\ ui.last.kind \in {"create", "update", "delete"}
        /\ ui.last.refreshFailed) =>
        ui.error # << >>

\* C29: once initialization has finished, the connection flag the component
\* displays equals apiServiceWrapper.isServiceConnected()
C29_FlagAgrees ==
    Initialized => (ui.apiServiceConnected <=> IsServiceConnected)

=============================================================================
